---- MODULE Spec2Model ----
\* A model of the reconciliation engine of src/reconciler.go: Merger.Run and
\* the functions it calls.  Two tables A and B are matched on a key, every
\* matched pair is compared field by field and merged under a conflict
\* strategy, and the provenance-tagged result is written to table C in batches.
\*
\* Values.  A Go *string is modelled as a sequence of length at most one:
\* NULL (nil) is <<>> and a pointer to the string s is <<s>>.  A row
\* (rowData.Values) is a function from field names to such values; a field
\* that is absent from the row is absent from the function's DOMAIN.
\*
\* Steps.  Run is sequential.  The model cuts it where the code talks to the
\* outside (one INSERT per batch, one line read from stdin) and once per row
\* of A in the matching pass; everything between two cuts is one action.
\* The statements of Run that read the database before the matching pass
\* (connect, schema introspection, DROP/CREATE of C, SELECT of A and B) are
\* taken to succeed; a failing INSERT is modelled.
EXTENDS Integers, Sequences, FiniteSets, TLC

VARIABLES
    config,         \* Merger.config, as left by NewMerger
    tableA,         \* rows of table A in the database (non-id columns)
    tableB,         \* rows of table B in the database (non-id columns)
    tableC,         \* rows of table C in the database, in insertion order
    stats,          \* Merger.stats (the counters; the timestamps are left out)
    fieldNamesA,    \* Merger.fieldNamesA
    fieldNamesB,    \* Merger.fieldNamesB
    fieldNamesC,    \* Merger.fieldNamesC
    compareFields,  \* Merger.compareFields
    bFieldInC,      \* Merger.bFieldInC, as the set of fields mapped to true
    dataA,          \* Run's local dataA
    dataB,          \* Run's local dataB
    bIndex,         \* Run's local bIndex: key -> row of B
    bMatched,       \* Run's local bMatched, as the set of keys mapped to true
    resultRows,     \* Run's local resultRows
    i,              \* index (1-based) of the row of A the matching pass is at
    wi,             \* batchInsertC's loop variable i (0-based offset)
    pc,             \* where Run is: idle, match, ask, asked, write, done, failed
    input,          \* askUserChoice's locals input and err, as last read
    execCalls,      \* sizes of the batches batchInsertC handed to db.Exec, in order
    returned,       \* what each call of Run returned, with table C as it left it
    runs            \* number of calls of Run so far

vars == <<config, tableA, tableB, tableC, stats, fieldNamesA, fieldNamesB,
          fieldNamesC, compareFields, bFieldInC, dataA, dataB, bIndex, bMatched,
          resultRows, i, wi, pc, input, execCalls, returned, runs>>

----------------------------------------------------------------------------
\* Bounds of the model.

MaxRowsA == 2
MaxRowsB == 2
MaxRowsAsk == 1
MaxRowsW == 3
MaxRuns == 2

----------------------------------------------------------------------------
\* Constants of the program.

UseA == 0
UseB == 1
AskUser == 2
DefaultBatchSize == 500

\* "\x00<NULL>\x00" and "\x01@@\x01": the control characters U+0000 and
\* U+0001 are written in caret notation, ^@ and ^A.
NullSentinel == "^@<NULL>^@"
KeySep == "^A@@^A"

NULL == <<>>
Str(s) == <<s>>

Range(s) == {s[n] : n \in 1..Len(s)}
SeqsUpTo(S, n) == UNION {[1..m -> S] : m \in 0..n}
Min(a, b) == IF a < b THEN a ELSE b

MetaFields == {"_source", "_conflict", "_diff_fields"}

----------------------------------------------------------------------------
\* The schemas of A and B in the database, as INFORMATION_SCHEMA lists them.

ColumnsA ==
    << [Name |-> "id", Extra |-> "auto_increment"],
       [Name |-> "k", Extra |-> ""],
       [Name |-> "x", Extra |-> ""],
       [Name |-> "y", Extra |-> ""],
       [Name |-> "z", Extra |-> ""] >>

ColumnsB ==
    << [Name |-> "id", Extra |-> "auto_increment"],
       [Name |-> "k", Extra |-> ""],
       [Name |-> "x", Extra |-> ""],
       [Name |-> "y", Extra |-> ""],
       [Name |-> "w", Extra |-> ""] >>

\* getColumns: the columns in ordinal order without the auto-increment id.
\* (Names and extras of the model are lower case already.)
getColumns(columns) ==
    SelectSeq(columns, LAMBDA c : ~(c.Name = "id" /\ c.Extra = "auto_increment"))

ColumnNames(columns) == [n \in 1..Len(columns) |-> columns[n].Name]

\* readTable: every row of the table, restricted to the given fields.
readTable(table, fieldNames) ==
    [n \in 1..Len(table) |-> [f \in Range(fieldNames) |-> table[n][f]]]

----------------------------------------------------------------------------
\* Utility functions.

isNullOrEmpty(v) == IF v = NULL THEN TRUE ELSE v[1] = ""

\* A variant that takes NULL and the empty string for the same value.
valuesEqualLoose(a, b) ==
    IF isNullOrEmpty(a) \/ isNullOrEmpty(b)
    THEN isNullOrEmpty(a) /\ isNullOrEmpty(b)
    ELSE a[1] = b[1]

valuesEqual(a, b) ==
    IF a = NULL /\ b = NULL THEN TRUE
    ELSE IF a = NULL \/ b = NULL THEN FALSE
    ELSE a[1] = b[1]

\* A read of a Go map: the zero value nil for a key that is not there.
ValOf(row, f) == IF f \in DOMAIN row THEN row[f] ELSE NULL

RECURSIVE Join(_, _)
Join(parts, sep) ==
    IF Len(parts) = 0 THEN ""
    ELSE IF Len(parts) = 1 THEN parts[1]
    ELSE parts[1] \o sep \o Join(Tail(parts), sep)

\* NewMerger: a batch size that is not positive becomes the default.
NewMerger(cfg) ==
    IF cfg.BatchSize <= 0 THEN [cfg EXCEPT !.BatchSize = DefaultBatchSize] ELSE cfg

ignoreSetA == Range(config.IgnoreFieldsA)
ignoreSetB == Range(config.IgnoreFieldsB)

buildKey(row) ==
    Join([n \in 1..Len(config.KeyFields) |->
             LET v == ValOf(row, config.KeyFields[n])
             IN  IF v = NULL THEN NullSentinel ELSE v[1]],
         KeySep)

\* A variant in which the first row of B with a key stays in the index.
RECURSIVE buildIndexFirstWins(_, _)
buildIndexFirstWins(rows, n) ==
    IF n = 0 THEN <<>>
    ELSE buildIndexFirstWins(rows, n - 1) @@ (buildKey(rows[n]) :> rows[n])

\* Run, step 7: later rows of B overwrite earlier ones with the same key.
RECURSIVE buildIndex(_, _)
buildIndex(rows, n) ==
    IF n = 0 THEN <<>>
    ELSE (buildKey(rows[n]) :> rows[n]) @@ buildIndex(rows, n - 1)

----------------------------------------------------------------------------
\* Building rows of C.

Meta(source, conflict, diffFields) ==
    [f \in MetaFields |->
        IF f = "_source" THEN Str(source)
        ELSE IF f = "_conflict" THEN (IF conflict THEN Str("1") ELSE Str("0"))
        ELSE IF diffFields # "" THEN Str(diffFields) ELSE NULL]

\* A variant that stores the empty string as NULL.
buildCRowFromAEmptyAsNull(rowA, source, conflict, diffFields) ==
    Meta(source, conflict, diffFields)
        @@ [f \in Range(fieldNamesC) |->
               IF isNullOrEmpty(ValOf(rowA, f)) THEN NULL ELSE ValOf(rowA, f)]

buildCRowFromAWithMeta(rowA, source, conflict, diffFields) ==
    Meta(source, conflict, diffFields)
        @@ [f \in Range(fieldNamesC) |-> ValOf(rowA, f)]

\* A variant that writes the fields of B's ignore-list too.
buildCRowFromBNoIgnore(rowB) ==
    Meta("B", FALSE, "")
        @@ [f \in Range(fieldNamesC) |->
               IF f \in DOMAIN rowB /\ f \in bFieldInC THEN rowB[f] ELSE NULL]

buildCRowFromB(rowB) ==
    Meta("B", FALSE, "")
        @@ [f \in Range(fieldNamesC) |->
               IF f \in ignoreSetB THEN NULL
               ELSE IF f \in DOMAIN rowB /\ f \in bFieldInC THEN rowB[f]
               ELSE NULL]

buildCRowMerged(merged, source, conflict, diffFields) ==
    Meta(source, conflict, diffFields)
        @@ [f \in Range(fieldNamesC) |-> ValOf(merged, f)]

----------------------------------------------------------------------------
\* compareAndMerge, as the functions of (rowA, rowB) its passes compute.

\* First pass: the comparison fields that differ.
diffFieldsOf(rowA, rowB) ==
    SelectSeq(compareFields,
              LAMBDA f : /\ f \notin ignoreSetB
                         /\ f \in DOMAIN rowB
                         /\ ~valuesEqual(ValOf(rowA, f), rowB[f]))

\* A variant that fills from B whenever A is NULL or empty.
isAutoFillAnyEmpty(rowA, rowB, f) == isNullOrEmpty(ValOf(rowA, f))

\* Third pass, first branch: A is NULL or empty and B is not.
isAutoFill(rowA, rowB, f) ==
    isNullOrEmpty(ValOf(rowA, f)) /\ ~isNullOrEmpty(rowB[f])

\* Third pass, second branch: A has a value and B is NULL or empty.
isAutoKeep(rowA, rowB, f) ==
    ~isNullOrEmpty(ValOf(rowA, f)) /\ isNullOrEmpty(rowB[f])

autoFillFieldsOf(rowA, rowB) ==
    SelectSeq(diffFieldsOf(rowA, rowB), LAMBDA f : isAutoFill(rowA, rowB, f))

\* Third pass, last branch: the fields left to the strategy.
manualDiffFieldsOf(rowA, rowB) ==
    SelectSeq(diffFieldsOf(rowA, rowB),
              LAMBDA f : ~isAutoFill(rowA, rowB, f) /\ ~isAutoKeep(rowA, rowB, f))

\* A variant that leaves A's NULL and empty values as they are.
mergedNoFill(rowA, rowB) == [f \in Range(fieldNamesC) |-> ValOf(rowA, f)]

\* merged after the second and third pass: A's values, auto-filled from B.
mergedAuto(rowA, rowB) ==
    [f \in Range(fieldNamesC) |->
        IF f \in Range(autoFillFieldsOf(rowA, rowB)) THEN rowB[f] ELSE ValOf(rowA, f)]

\* A variant that overwrites every differing field with B's value.
mergedUseBAll(rowA, rowB) ==
    [f \in Range(fieldNamesC) |->
        IF f \in Range(diffFieldsOf(rowA, rowB)) THEN rowB[f] ELSE ValOf(rowA, f)]

\* merged after the strategy chose B: the manual fields overwritten with B's.
mergedUseB(rowA, rowB) ==
    [f \in Range(fieldNamesC) |->
        IF f \in Range(manualDiffFieldsOf(rowA, rowB))
        THEN rowB[f]
        ELSE mergedAuto(rowA, rowB)[f]]

\* The switch on the strategy, for the strategies that do not ask: a strategy
\* no case names leaves choice at its zero value, UseA.
\* A variant in which every strategy ends at UseA.
strategyChoiceAlwaysA(strategy) == UseA

strategyChoice(strategy) == IF strategy = UseB THEN UseB ELSE UseA

\* The row compareAndMerge returns once the choice for the manual fields is made.
resolvedRow(rowA, rowB, choice) ==
    IF choice = UseA
    THEN buildCRowMerged(mergedAuto(rowA, rowB), "MERGE_A", TRUE,
                         Join(diffFieldsOf(rowA, rowB), ","))
    ELSE buildCRowMerged(mergedUseB(rowA, rowB), "MERGE_B", TRUE,
                         Join(diffFieldsOf(rowA, rowB), ","))

\* The counters after the choice for the manual fields is made.
resolvedStats(st, choice) ==
    IF choice = UseA
    THEN [st EXCEPT !.ConflictUseA = @ + 1]
    ELSE [st EXCEPT !.ConflictUseB = @ + 1]

\* A variant that counts a conflict for every differing field.
conflictStatsPerField(st, rowA, rowB) ==
    [st EXCEPT !.Conflict = @ + Len(diffFieldsOf(rowA, rowB)),
               !.NullAutoFilled = @ + Len(autoFillFieldsOf(rowA, rowB))]

\* The counters after the passes that precede the choice.
conflictStats(st, rowA, rowB) ==
    [st EXCEPT !.Conflict = @ + 1,
               !.NullAutoFilled = @ + Len(autoFillFieldsOf(rowA, rowB))]

----------------------------------------------------------------------------
\* askUserChoice: a line of stdin is a sequence of characters.

Spaces == {" ", "\n", "\r", "\t"}

RECURSIVE TrimLeft(_, _)
TrimLeft(s, cutset) ==
    IF Len(s) > 0 /\ s[1] \in cutset THEN TrimLeft(Tail(s), cutset) ELSE s

RECURSIVE TrimRight(_, _)
TrimRight(s, cutset) ==
    IF Len(s) > 0 /\ s[Len(s)] \in cutset
    THEN TrimRight(SubSeq(s, 1, Len(s) - 1), cutset)
    ELSE s

TrimSpace(s) == TrimRight(TrimLeft(s, Spaces), Spaces)

UpperOf(c) ==
    IF c = "a" THEN "A" ELSE IF c = "b" THEN "B" ELSE IF c = "x" THEN "X" ELSE c

ToUpper(s) == [n \in 1..Len(s) |-> UpperOf(s[n])]

\* A variant without the conversion to upper case.
normalizeInputCaseSensitive(line) ==
    TrimSpace(TrimRight(TrimSpace(line), {"\r", "\n"}))

\* The three assignments to input after a successful read.
normalizeInput(line) ==
    ToUpper(TrimSpace(TrimRight(TrimSpace(line), {"\r", "\n"})))

\* The switch on input: <<choice>> for "A" and "B", <<>> for the default case.
inputChoice(text) ==
    IF text = <<"A">> THEN <<UseA>>
    ELSE IF text = <<"B">> THEN <<UseB>>
    ELSE <<>>

----------------------------------------------------------------------------
\* Inputs of the model.

\* Tables of the main specification.  Rows with key "1" take every value of
\* x; rows with key "2" take one.  On x a matched pair of key "1" meets every
\* combination of NULL, the empty string and a text; y differs in every
\* matched pair unless an ignore-list takes it out; z is missing from B and w
\* from A.
ValsXA(kv) == IF kv = "1" THEN {NULL, Str(""), Str("p")} ELSE {NULL}
ValsXB(kv) == IF kv = "1" THEN {NULL, Str(""), Str("q")} ELSE {Str("q")}

RowsA ==
    {[k |-> Str(r[1]), x |-> r[2], y |-> Str("p"), z |-> Str("p")] :
        r \in {r \in {"1", "2"} \X {NULL, Str(""), Str("p")} : r[2] \in ValsXA(r[1])}}

RowsB ==
    {[k |-> Str(r[1]), x |-> r[2], y |-> Str("q"), w |-> Str("p")] :
        r \in {r \in {"1", "2"} \X {NULL, Str(""), Str("q")} : r[2] \in ValsXB(r[1])}}

IgnoreLists == {<<<<>>, <<>>>>, <<<<"y">>, <<>>>>, <<<<>>, <<"y">>>>}

ConfigsOf(strategies, batchSizes) ==
    {[KeyFields |-> <<"k">>, IgnoreFieldsA |-> ig[1], IgnoreFieldsB |-> ig[2],
      Strategy |-> st, BatchSize |-> bs] :
        ig \in IgnoreLists, st \in strategies, bs \in batchSizes}

\* The lines stdin may hold, without the line feed that ends each.
Lines ==
    { <<"A">>, <<"b">>, <<" ", "a", " ">>, <<"B", "\r">>, <<>>, <<"x">>,
      <<"a", "b">>, <<"a", " ", "b">> }

ZeroStats ==
    [TotalA |-> 0, TotalB |-> 0, TotalC |-> 0, ExactMatch |-> 0, OnlyInA |-> 0,
     OnlyInB |-> 0, Conflict |-> 0, NullAutoFilled |-> 0, ConflictUseA |-> 0,
     ConflictUseB |-> 0]

NoInput == [err |-> FALSE, line |-> <<>>, text |-> <<>>]

----------------------------------------------------------------------------
\* The state after NewMerger(cfg), for tables ta and tb in the database.

InitWith(cfgs, tas, tbs) ==
    \E cfg \in cfgs, ta \in tas, tb \in tbs :
        /\ config = NewMerger(cfg)
        /\ tableA = ta
        /\ tableB = tb
        /\ tableC = <<>>
        /\ stats = ZeroStats
        /\ fieldNamesA = <<>>
        /\ fieldNamesB = <<>>
        /\ fieldNamesC = <<>>
        /\ compareFields = <<>>
        /\ bFieldInC = {}
        /\ dataA = <<>>
        /\ dataB = <<>>
        /\ bIndex = <<>>
        /\ bMatched = {}
        /\ resultRows = <<>>
        /\ i = 1
        /\ wi = 0
        /\ pc = "idle"
        /\ input = NoInput
        /\ execCalls = <<>>
        /\ returned = <<>>
        /\ runs = 0

\* The main specification: every strategy; under the interactive one A is
\* bounded by MaxRowsAsk.
Init ==
    \/ InitWith(ConfigsOf({UseA, UseB}, {0}),
                SeqsUpTo(RowsA, MaxRowsA), SeqsUpTo(RowsB, MaxRowsB))
    \/ InitWith(ConfigsOf({AskUser}, {0}),
                SeqsUpTo(RowsA, MaxRowsAsk), SeqsUpTo(RowsB, MaxRowsB))

----------------------------------------------------------------------------
\* Run, steps 1 to 7: reset, schemas, field lists, recreate C, load, index.

\* A variant that keeps the table when it exists.
recreateTableCKeep(c) == c

\* recreateTableC: DROP TABLE IF EXISTS, then CREATE TABLE: C is empty.
recreateTableC(c) == <<>>

RunBody ==
    /\ runs' = runs + 1
    /\ fieldNamesA' = ColumnNames(getColumns(ColumnsA))
    /\ fieldNamesB' = ColumnNames(getColumns(ColumnsB))
    /\ fieldNamesC' = fieldNamesA'
    /\ bFieldInC' = bFieldInC \cup
                       {f \in Range(fieldNamesC') : f \in Range(fieldNamesB')}
    /\ compareFields' =
           SelectSeq(fieldNamesC',
                     LAMBDA f : f \notin Range(config.KeyFields) /\ f \notin ignoreSetA)
    /\ tableC' = recreateTableC(tableC)
    /\ dataA' = readTable(tableA, fieldNamesA')
    /\ dataB' = readTable(tableB, fieldNamesB')
    /\ stats' = [ZeroStats EXCEPT !.TotalA = Len(dataA'), !.TotalB = Len(dataB')]
    /\ bIndex' = buildIndex(dataB', Len(dataB'))
    /\ bMatched' = {}
    /\ resultRows' = <<>>
    /\ i' = 1
    /\ wi' = 0
    /\ input' = NoInput
    /\ execCalls' = <<>>
    /\ pc' = "match"
    /\ UNCHANGED <<config, tableA, tableB, returned>>

\* The first call of Run on the Merger.
RunStart ==
    /\ pc = "idle"
    /\ RunBody

\* A later call of Run on the same Merger, once the call before it returned.
RunAgain ==
    /\ pc \in {"done", "failed"}
    /\ runs < MaxRuns
    /\ RunBody

----------------------------------------------------------------------------
\* Run, step 8: one iteration of the loop over dataA.

\* The row of A has no partner in bIndex.
MatchOnlyInA ==
    /\ pc = "match"
    /\ i <= Len(dataA)
    /\ buildKey(dataA[i]) \notin DOMAIN bIndex
    /\ stats' = [stats EXCEPT !.OnlyInA = @ + 1]
    /\ resultRows' = Append(resultRows, buildCRowFromAWithMeta(dataA[i], "A", FALSE, ""))
    /\ i' = i + 1
    /\ UNCHANGED <<config, tableA, tableB, tableC, fieldNamesA, fieldNamesB,
                   fieldNamesC, compareFields, bFieldInC, dataA, dataB, bIndex,
                   bMatched, wi, pc, input, execCalls, returned, runs>>

\* The row of A has a partner: compareAndMerge, up to its return or to the
\* point where askUserChoice blocks on stdin.
MatchPair ==
    /\ pc = "match"
    /\ i <= Len(dataA)
    /\ buildKey(dataA[i]) \in DOMAIN bIndex
    /\ LET rowA == dataA[i]
           keyA == buildKey(rowA)
           rowB == bIndex[keyA]
       IN  /\ bMatched' = bMatched \cup {keyA}
           /\ IF Len(diffFieldsOf(rowA, rowB)) = 0
              THEN /\ stats' = [stats EXCEPT !.ExactMatch = @ + 1]
                   /\ resultRows' =
                          Append(resultRows, buildCRowFromAWithMeta(rowA, "A", FALSE, ""))
                   /\ i' = i + 1
                   /\ UNCHANGED pc
              ELSE IF Len(manualDiffFieldsOf(rowA, rowB)) = 0
              THEN /\ stats' = conflictStats(stats, rowA, rowB)
                   /\ resultRows' =
                          Append(resultRows,
                                 buildCRowMerged(mergedAuto(rowA, rowB), "MERGE_A", TRUE,
                                                 Join(diffFieldsOf(rowA, rowB), ",")))
                   /\ i' = i + 1
                   /\ UNCHANGED pc
              ELSE IF config.Strategy = AskUser
              THEN /\ stats' = conflictStats(stats, rowA, rowB)
                   /\ pc' = "ask"
                   /\ UNCHANGED <<resultRows, i>>
              ELSE /\ stats' = resolvedStats(conflictStats(stats, rowA, rowB),
                                             strategyChoice(config.Strategy))
                   /\ resultRows' =
                          Append(resultRows,
                                 resolvedRow(rowA, rowB, strategyChoice(config.Strategy)))
                   /\ i' = i + 1
                   /\ UNCHANGED pc
    /\ UNCHANGED <<config, tableA, tableB, tableC, fieldNamesA, fieldNamesB,
                   fieldNamesC, compareFields, bFieldInC, dataA, dataB, bIndex,
                   wi, input, execCalls, returned, runs>>

----------------------------------------------------------------------------
\* askUserChoice: one pass of its loop, and the rest of compareAndMerge once
\* it returns.

\* ReadString returned: a line, or an error.
AskRead ==
    /\ pc = "ask"
    /\ \/ \E line \in Lines :
            input' = [err |-> FALSE, line |-> line \o <<"\n">>,
                      text |-> normalizeInput(line \o <<"\n">>)]
       \/ input' = [err |-> TRUE, line |-> <<>>, text |-> <<>>]
    /\ pc' = "asked"
    /\ UNCHANGED <<config, tableA, tableB, tableC, stats, fieldNamesA, fieldNamesB,
                   fieldNamesC, compareFields, bFieldInC, dataA, dataB, bIndex,
                   bMatched, resultRows, i, wi, execCalls, returned, runs>>

\* What askUserChoice does with what it read: <<choice>> when it returns,
\* <<>> when it asks again.
askOutcome(in) == IF in.err THEN <<UseA>> ELSE inputChoice(in.text)

\* The error branch or the switch on input; on a return, the rest of
\* compareAndMerge.
AskSwitch ==
    /\ pc = "asked"
    /\ IF askOutcome(input) = <<>>
       THEN /\ pc' = "ask"
            /\ UNCHANGED <<stats, resultRows, i, input>>
       ELSE LET rowA == dataA[i]
                rowB == bIndex[buildKey(rowA)]
                choice == askOutcome(input)[1]
            IN  /\ stats' = resolvedStats(stats, choice)
                /\ resultRows' = Append(resultRows, resolvedRow(rowA, rowB, choice))
                /\ i' = i + 1
                /\ pc' = "match"
                /\ input' = NoInput
    /\ UNCHANGED <<config, tableA, tableB, tableC, fieldNamesA, fieldNamesB,
                   fieldNamesC, compareFields, bFieldInC, dataA, dataB, bIndex,
                   bMatched, wi, execCalls, returned, runs>>

----------------------------------------------------------------------------
\* Run, step 9: the loop over dataB, for the rows no row of A matched.

\* A variant that takes every row of B, matched or not.
bOnlyRowsAll == dataB

bOnlyRows == SelectSeq(dataB, LAMBDA rowB : buildKey(rowB) \notin bMatched)

BOnlyPass ==
    /\ pc = "match"
    /\ i > Len(dataA)
    /\ stats' = [stats EXCEPT !.OnlyInB = @ + Len(bOnlyRows)]
    /\ resultRows' =
           resultRows \o [n \in 1..Len(bOnlyRows) |-> buildCRowFromB(bOnlyRows[n])]
    /\ pc' = "write"
    /\ wi' = 0
    /\ UNCHANGED <<config, tableA, tableB, tableC, fieldNamesA, fieldNamesB,
                   fieldNamesC, compareFields, bFieldInC, dataA, dataB, bIndex,
                   bMatched, i, input, execCalls, returned, runs>>

----------------------------------------------------------------------------
\* Run, step 10: batchInsertC, one INSERT statement per step.

\* The row an INSERT stores: the fields of C and the three metadata fields.
insertedRow(row) ==
    [f \in Range(fieldNamesC) \cup MetaFields |-> ValOf(row, f)]

\* A variant that advances by one row.
nextOffsetByOne(off, batchSize) == off + 1

\* The loop's post statement, i += batchSize.
nextOffset(off, batchSize) == off + batchSize

batchEnd == Min(wi + config.BatchSize, Len(resultRows))

batchOf == SubSeq(resultRows, wi + 1, batchEnd)

\* db.Exec succeeded.
InsertBatch ==
    /\ pc = "write"
    /\ wi < Len(resultRows)
    /\ execCalls' = Append(execCalls, Len(batchOf))
    /\ tableC' = tableC \o [n \in 1..Len(batchOf) |-> insertedRow(batchOf[n])]
    /\ wi' = nextOffset(wi, config.BatchSize)
    /\ UNCHANGED <<config, tableA, tableB, stats, fieldNamesA, fieldNamesB,
                   fieldNamesC, compareFields, bFieldInC, dataA, dataB, bIndex,
                   bMatched, resultRows, i, pc, input, returned, runs>>

\* db.Exec failed: batchInsertC returns the error and Run returns (nil, err).
InsertBatchFail ==
    /\ pc = "write"
    /\ wi < Len(resultRows)
    /\ execCalls' = Append(execCalls, Len(batchOf))
    /\ pc' = "failed"
    /\ returned' = Append(returned, [err |-> TRUE, report |-> <<>>, tableC |-> tableC])
    /\ UNCHANGED <<config, tableA, tableB, tableC, stats, fieldNamesA, fieldNamesB,
                   fieldNamesC, compareFields, bFieldInC, dataA, dataB, bIndex,
                   bMatched, resultRows, i, wi, input, runs>>

\* batchInsertC returned nil: Run sets TotalC and returns (&m.stats, nil).
Finish ==
    /\ pc = "write"
    /\ wi >= Len(resultRows)
    /\ stats' = [stats EXCEPT !.TotalC = Len(resultRows)]
    /\ pc' = "done"
    /\ returned' = Append(returned, [err |-> FALSE, report |-> <<stats'>>, tableC |-> tableC])
    /\ UNCHANGED <<config, tableA, tableB, tableC, fieldNamesA, fieldNamesB,
                   fieldNamesC, compareFields, bFieldInC, dataA, dataB, bIndex,
                   bMatched, resultRows, i, wi, input, execCalls, runs>>

----------------------------------------------------------------------------

Next ==
    \/ RunStart
    \/ MatchOnlyInA
    \/ MatchPair
    \/ AskRead
    \/ AskSwitch
    \/ BOnlyPass
    \/ InsertBatch
    \/ InsertBatchFail
    \/ Finish

Spec == Init /\ [][Next]_vars

----------------------------------------------------------------------------
\* Run called again on the same Merger, under the strategies that do not ask.

\* Rows of A without the empty string and rows of B without NULL.
RowsTA == {r \in RowsA : r["x"] # Str("")}
RowsTB == {r \in RowsB : r["x"] # NULL}

InitTwice ==
    InitWith(ConfigsOf({UseA, UseB}, {2}),
             SeqsUpTo(RowsTA, MaxRowsA), SeqsUpTo(RowsTB, MaxRowsB))

NextTwice ==
    \/ RunStart
    \/ RunAgain
    \/ MatchOnlyInA
    \/ MatchPair
    \/ BOnlyPass
    \/ InsertBatch
    \/ InsertBatchFail
    \/ Finish

SpecTwice == InitTwice /\ [][NextTwice]_vars

----------------------------------------------------------------------------
\* The writer: larger tables of plain rows, and every kind of batch size
\* (0 stands for a batch size left unset, which NewMerger makes the default).

RowsWA ==
    {[k |-> Str(kv), x |-> Str("p"), y |-> Str("p"), z |-> Str("p")] :
        kv \in {"1", "2"}}

RowsWB ==
    {[k |-> Str(kv), x |-> Str("p"), y |-> Str("p"), w |-> Str("p")] :
        kv \in {"2", "3"}}

InitWrite ==
    InitWith({[KeyFields |-> <<"k">>, IgnoreFieldsA |-> <<>>, IgnoreFieldsB |-> <<>>,
               Strategy |-> UseA, BatchSize |-> bs] : bs \in {0, 1, 2, 3}},
             SeqsUpTo(RowsWA, MaxRowsW), SeqsUpTo(RowsWB, MaxRowsW))

NextWrite ==
    \/ RunStart
    \/ MatchOnlyInA
    \/ MatchPair
    \/ BOnlyPass
    \/ InsertBatch
    \/ InsertBatchFail
    \/ Finish

SpecWrite == InitWrite /\ [][NextWrite]_vars


----------------------------------------------------------------------------
\* Vocabulary of the properties, in terms of the tables in the database.

\* The output schema: the columns of A without the auto-increment id.
OutFields == Range(ColumnNames(getColumns(ColumnsA)))

\* The schema of B.
SchemaB == Range(ColumnNames(getColumns(ColumnsB)))

KeyA(n) == buildKey(tableA[n])
KeyB(m) == buildKey(tableB[m])

\* The key has an entry in B's index: some row of B carries it.
InB(key) == \E m \in 1..Len(tableB) : KeyB(m) = key
InA(key) == \E n \in 1..Len(tableA) : KeyA(n) = key

\* Run has got to the write, or has returned.
PastMatching == pc \in {"write", "done", "failed"}

IsSource(rec, source) == rec["_source"] = Str(source)
IsConflict(rec) == rec["_conflict"] = Str("1")
NoConflict(rec) == rec["_conflict"] = Str("0")

\* The record is an unmodified copy of row n of A, tagged as coming from A.
CopyOfA(rec, n) ==
    /\ IsSource(rec, "A")
    /\ NoConflict(rec)
    /\ rec["_diff_fields"] = NULL
    /\ \A f \in OutFields : f \in DOMAIN rec /\ rec[f] = tableA[n][f]

----------------------------------------------------------------------------
\* C1: every row of A whose key has no entry in B's index yields an output
\* record with source "A", conflict false, no diff_fields and every field of
\* the output schema equal to the row's value (NULL stays NULL, the empty
\* string stays the empty string), under every strategy and ignore-list; the
\* record is the row's n-th in the result and, after a successful run, in C.
C1_OnlyInA ==
    /\ PastMatching => Len(resultRows) >= Len(tableA)
    /\ pc = "done" => Len(tableC) >= Len(tableA)
    /\ \A n \in 1..Len(tableA) :
          ~InB(KeyA(n)) =>
              /\ n <= Len(resultRows) => CopyOfA(resultRows[n], n)
              /\ pc = "done" => CopyOfA(tableC[n], n)

\* A run that ended well, under PreferB and with a B ignore-list, in which one
\* row only in A held the empty string and another held NULL.
C1_Witness ==
    /\ pc = "done"
    /\ config.Strategy = UseB
    /\ config.IgnoreFieldsB # <<>>
    /\ \E n \in 1..Len(tableA) :
          /\ ~InB(KeyA(n))
          /\ tableA[n]["x"] = Str("")
          /\ tableC[n]["x"] = Str("")
    /\ \E n \in 1..Len(tableA) :
          /\ ~InB(KeyA(n))
          /\ tableA[n]["x"] = NULL
          /\ tableC[n]["x"] = NULL


----------------------------------------------------------------------------
\* The rows of B whose key no row of A carries, in table order.
BOnlyOf == SelectSeq(tableB, LAMBDA r : ~InA(buildKey(r)))

\* The record is row rowB of B projected on the output schema.
ProjectionOfB(rec, rowB) ==
    /\ IsSource(rec, "B")
    /\ NoConflict(rec)
    /\ \A f \in OutFields :
          /\ f \in DOMAIN rec
          /\ rec[f] = IF f \in SchemaB /\ f \notin Range(config.IgnoreFieldsB)
                      THEN rowB[f]
                      ELSE NULL

\* C2: every row of B whose key no row of A matched yields an output record,
\* after the records of A's rows and in table order, with source "B" and
\* conflict false, in which an output field carries B's value iff the field
\* is in B's schema and not in B's ignore-list, and is NULL otherwise.
C2_OnlyInB ==
    LET bOnly == BOnlyOf
    IN  /\ PastMatching => Len(resultRows) = Len(tableA) + Len(bOnly)
        /\ pc = "done" => Len(tableC) = Len(tableA) + Len(bOnly)
        /\ \A j \in 1..Len(bOnly) :
              /\ PastMatching => ProjectionOfB(resultRows[Len(tableA) + j], bOnly[j])
              /\ pc = "done" => ProjectionOfB(tableC[Len(tableA) + j], bOnly[j])

\* A run that ended well with B's ignore-list in force and a row only in B:
\* its x (the empty string) is written, its ignored y and the field z that B
\* does not have are NULL.
C2_Witness ==
    /\ pc = "done"
    /\ config.IgnoreFieldsB = <<"y">>
    /\ Len(tableA) > 0
    /\ \E j \in 1..Len(BOnlyOf) :
          /\ BOnlyOf[j]["x"] = Str("")
          /\ tableC[Len(tableA) + j]["x"] = Str("")
          /\ tableC[Len(tableA) + j]["y"] = NULL
          /\ tableC[Len(tableA) + j]["z"] = NULL
          /\ BOnlyOf[j]["y"] # NULL

----------------------------------------------------------------------------
\* The partner of a key in B: the last row of B that carries it.
LastB(key) ==
    LET carriers == {m \in 1..Len(tableB) : KeyB(m) = key}
    IN  tableB[CHOOSE m \in carriers : \A m2 \in carriers : m2 <= m]

\* The comparison fields outside B's ignore-list that the row of B has.
ComparedFields(rowB) ==
    (OutFields \cap DOMAIN rowB)
        \ (Range(config.KeyFields) \cup Range(config.IgnoreFieldsA)
                                   \cup Range(config.IgnoreFieldsB))

\* The compared fields on which row n of A and its partner differ: a value is
\* NULL (<<>>) or a string (<<s>>), so two values are equal iff both are NULL
\* or both are the same string.
Differing(n) ==
    LET rowB == LastB(KeyA(n))
    IN  {f \in ComparedFields(rowB) : tableA[n][f] # rowB[f]}

\* The rows of A that have a partner and whose record is in the result.
MatchedDone == {n \in 1..Min(Len(tableA), Len(resultRows)) : InB(KeyA(n))}

ExactForm(rec) ==
    IsSource(rec, "A") /\ NoConflict(rec) /\ rec["_diff_fields"] = NULL

\* C3: a matched pair is an exact match (source "A", conflict false, no
\* diff_fields, one more ExactMatch) iff no compared field differs; NULL
\* against the empty string is a difference, a field B does not have or
\* ignores is never one.
C3_ExactMatch ==
    LET exact == {n \in MatchedDone : Differing(n) = {}}
    IN  /\ \A n \in MatchedDone : ExactForm(resultRows[n]) <=> n \in exact
        /\ stats.ExactMatch = Cardinality(exact)

\* A run that ended well in which one row of A held NULL against B's empty
\* string and was no exact match, and another held the same empty string as
\* B, with a field missing from B, and was one.
C3_Witness ==
    /\ pc = "done"
    /\ stats.ExactMatch = 1
    /\ \E n1, n2 \in MatchedDone :
          /\ tableA[n1]["x"] = NULL
          /\ LastB(KeyA(n1))["x"] = Str("")
          /\ Differing(n1) = {"x"}
          /\ ~ExactForm(resultRows[n1])
          /\ tableA[n2]["x"] = Str("")
          /\ Differing(n2) = {}
          /\ tableA[n2]["z"] # NULL
          /\ ExactForm(resultRows[n2])


----------------------------------------------------------------------------
\* The matching pass is about to take row i of A, which has a partner in B.
AtPair == pc = "match" /\ i <= Len(tableA) /\ InB(KeyA(i))

\* The record the step appends to the result.
Appended == resultRows'[Len(resultRows')]

NonEmpty(v) == v # NULL /\ v # Str("")

\* C4: for a matched pair with exactly one differing field, NULL in A and
\* non-empty in B, the step that handles the pair appends one record that
\* carries B's value in that field, with conflict true, source "MERGE_A" and
\* diff_fields the field's name; NullAutoFilled grows by one and ConflictUseA
\* and ConflictUseB stay, under every strategy.
C4_AutoFill ==
    [][ (/\ AtPair
         /\ \E f \in Differing(i) :
               /\ Differing(i) = {f}
               /\ tableA[i][f] = NULL
               /\ NonEmpty(LastB(KeyA(i))[f]))
        => /\ Len(resultRows') = Len(resultRows) + 1
           /\ \A f \in Differing(i) : Appended[f] = LastB(KeyA(i))[f]
           /\ IsConflict(Appended)
           /\ IsSource(Appended, "MERGE_A")
           /\ \A f \in Differing(i) : Appended["_diff_fields"] = Str(f)
           /\ stats'.NullAutoFilled = stats.NullAutoFilled + 1
           /\ stats'.ConflictUseA = stats.ConflictUseA
           /\ stats'.ConflictUseB = stats.ConflictUseB
           /\ pc' = "match" ]_vars

\* Under the interactive strategy, a pair whose only difference was x, NULL
\* in A and "q" in B, has been merged: its record carries "q".
C4_Witness ==
    /\ config.Strategy = AskUser
    /\ stats.NullAutoFilled = 1
    /\ \E n \in MatchedDone :
          /\ Differing(n) = {"x"}
          /\ tableA[n]["x"] = NULL
          /\ LastB(KeyA(n))["x"] = Str("q")
          /\ resultRows[n]["x"] = Str("q")
          /\ IsSource(resultRows[n], "MERGE_A")

----------------------------------------------------------------------------
\* The contested fields of row n of A and its partner: they differ and both
\* sides are non-empty.
Contested(n) ==
    {f \in Differing(n) : NonEmpty(tableA[n][f]) /\ NonEmpty(LastB(KeyA(n))[f])}

\* C5: under PreferB, for a matched pair with a contested field, the step
\* that handles the pair appends one record that carries B's value in every
\* contested field, with source "MERGE_B" and conflict true, and ConflictUseB
\* grows by one, however many fields are contested.
C5_PreferB ==
    [][ (AtPair /\ config.Strategy = UseB /\ Contested(i) # {})
        => /\ Len(resultRows') = Len(resultRows) + 1
           /\ \A f \in Contested(i) : Appended[f] = LastB(KeyA(i))[f]
           /\ IsSource(Appended, "MERGE_B")
           /\ IsConflict(Appended)
           /\ stats'.ConflictUseB = stats.ConflictUseB + 1 ]_vars

\* Under PreferB a pair with two contested fields has been merged toward B,
\* and ConflictUseB is one.
C5_Witness ==
    /\ config.Strategy = UseB
    /\ stats.ConflictUseB = 1
    /\ \E n \in MatchedDone :
          /\ Contested(n) = {"x", "y"}
          /\ resultRows[n]["x"] = LastB(KeyA(n))["x"]
          /\ resultRows[n]["y"] = LastB(KeyA(n))["y"]
          /\ IsSource(resultRows[n], "MERGE_B")


----------------------------------------------------------------------------
\* The names of the given fields, in the order of the output schema, joined
\* with commas.
DiffNamesOf(differing) ==
    Join(SelectSeq(ColumnNames(getColumns(ColumnsA)), LAMBDA f : f \in differing), ",")

\* C6: B's index holds one entry for every key of B and no other, and the
\* entry is the last row of B with that key; the record of every matched row
\* of A is made of that row and this last row only: each field holds A's
\* value or the last row's, and diff_fields names the fields on which these
\* two differ.
C6_LastWins ==
    pc # "idle" =>
        /\ DOMAIN bIndex = {KeyB(m) : m \in 1..Len(tableB)}
        /\ \A key \in DOMAIN bIndex : bIndex[key] = LastB(key)
        /\ \A n \in MatchedDone :
              LET rowB == LastB(KeyA(n))
                  differing == {f \in ComparedFields(rowB) : tableA[n][f] # rowB[f]}
              IN  /\ \A f \in OutFields :
                        \/ resultRows[n][f] = tableA[n][f]
                        \/ f \in SchemaB /\ resultRows[n][f] = rowB[f]
                  /\ resultRows[n]["_diff_fields"] =
                         IF differing = {} THEN NULL ELSE Str(DiffNamesOf(differing))

\* B held two rows with one key, "q" in the earlier and NULL in the later,
\* and a row of A with that key and NULL was matched: nothing was filled in.
C6_Witness ==
    /\ pc = "done"
    /\ \E m1, m2 \in 1..Len(tableB), n \in MatchedDone :
          /\ m1 < m2
          /\ KeyB(m1) = KeyB(m2)
          /\ KeyA(n) = KeyB(m1)
          /\ tableB[m1]["x"] = Str("q")
          /\ tableB[m2]["x"] = NULL
          /\ tableA[n]["x"] = NULL
          /\ resultRows[n]["x"] = NULL

----------------------------------------------------------------------------
\* The keys that occur in A or in B.
AllKeys == {KeyA(n) : n \in 1..Len(tableA)} \cup {KeyB(m) : m \in 1..Len(tableB)}

\* The number of records of the result that carry the key.
RecordsOf(key) == Cardinality({r \in 1..Len(resultRows) : buildKey(resultRows[r]) = key})

\* C8 as stated: after a successful run the result handed to the writer
\* holds exactly one record for every key that occurs in A or in B, also
\* when A or B holds several rows with one key.
C8_OnePerKey ==
    pc = "done" => \A key \in AllKeys : RecordsOf(key) = 1

\* C8, amended: after a successful run the result holds, for every key that
\* occurs in A, one record per row of A with that key, and for every key that
\* occurs in B only, one record per row of B with that key; so exactly one
\* record for a key that one row of A carries, or no row of A and one of B.
C8_PerRow ==
    pc = "done" =>
        \A key \in AllKeys :
            RecordsOf(key) =
                IF InA(key)
                THEN Cardinality({n \in 1..Len(tableA) : KeyA(n) = key})
                ELSE Cardinality({m \in 1..Len(tableB) : KeyB(m) = key})

\* A successful run on tables in which two rows of A share a key that two
\* rows of B carry too, and two records came out for it.
C8_Witness ==
    /\ pc = "done"
    /\ Len(tableA) = 2
    /\ KeyA(1) = KeyA(2)
    /\ Len(tableB) = 2
    /\ KeyB(1) = KeyA(1)
    /\ KeyB(2) = KeyA(1)
    /\ RecordsOf(KeyA(1)) = 2


----------------------------------------------------------------------------
\* ceil(n / b) for b > 0.
CeilDiv(n, b) == (n + b - 1) \div b

\* The first n records of the result.
FirstRecords(n) == SubSeq(resultRows, 1, Min(n, Len(resultRows)))

\* What the last call of Run returned.
LastReturn == returned[Len(returned)]

\* C7: writing n records with batch size b issues the INSERT calls in input
\* order, each of b records except a smaller last one, ceil(n / b) calls when
\* none fails; when the k-th call fails exactly the first (k - 1) * b records
\* are in C, no call follows, and Run returns an error and no report.
C7_Batches ==
    LET n == Len(resultRows)
        b == config.BatchSize
        k == Len(execCalls)
    IN  /\ pc \notin {"write", "done", "failed"} => k = 0 /\ tableC = <<>>
        /\ pc \in {"write", "done", "failed"} =>
              /\ k <= CeilDiv(n, b)
              /\ \A c \in 1..k :
                    execCalls[c] = IF c * b <= n THEN b ELSE n - (c - 1) * b
              /\ \A c \in 1..k : execCalls[c] > 0
        /\ pc = "write" => tableC = FirstRecords(k * b)
        /\ pc = "done" =>
              /\ k = CeilDiv(n, b)
              /\ tableC = resultRows
              /\ ~LastReturn.err
              /\ LastReturn.report = <<stats>>
        /\ pc = "failed" =>
              /\ k >= 1
              /\ tableC = FirstRecords((k - 1) * b)
              /\ Len(tableC) = (k - 1) * b
              /\ LastReturn.err
              /\ LastReturn.report = <<>>

\* Five records and batch size 2: the second call failed with the first two
\* records in C.
C7_Witness ==
    /\ Len(resultRows) = 5
    /\ config.BatchSize = 2
    /\ pc = "failed"
    /\ execCalls = <<2, 2>>
    /\ Len(tableC) = 2

\* Five records and batch size 2: three calls of sizes 2, 2 and 1.
C7_WitnessSizes ==
    /\ Len(resultRows) = 5
    /\ config.BatchSize = 2
    /\ pc = "done"
    /\ execCalls = <<2, 2, 1>>


----------------------------------------------------------------------------
\* The line, stripped of the white space around it, is the letter in upper
\* or lower case.
NormalizesTo(line, upper, lower) ==
    \E n \in 1..Len(line) :
        /\ line[n] \in {upper, lower}
        /\ \A m \in (1..Len(line)) \ {n} : line[m] \in Spaces

\* The step returns the choice for the entity at hand: its record is appended
\* with the source, the counter of the side grows by one, and the matching
\* pass goes on with the next row of A.
Decides(source, counter) ==
    /\ Len(resultRows') = Len(resultRows) + 1
    /\ IsSource(Appended, source)
    /\ IsConflict(Appended)
    /\ stats' = [stats EXCEPT ![counter] = @ + 1]
    /\ i' = i + 1
    /\ pc' = "match"
    /\ returned' = returned

\* C9: under the interactive strategy the choice for an entity with contested
\* fields is returned only for a line that normalizes to "A" or "B"; every
\* other line leads back to the prompt, any number of times, and nothing else
\* of the pipeline moves while the prompt waits; when the read fails the
\* choice is A, the entity comes out as MERGE_A and the run goes on.
C9_Interactive ==
    [][ /\ pc' \in {"ask", "asked"} =>
              /\ config.Strategy = AskUser
              /\ InB(KeyA(i'))
              /\ \E f \in Differing(i') :
                    ~isAutoFill(tableA[i'], LastB(KeyA(i')), f)
                    /\ ~isAutoKeep(tableA[i'], LastB(KeyA(i')), f)
        /\ pc = "ask" =>
              /\ pc' = "asked"
              /\ UNCHANGED <<stats, resultRows, i, tableC, execCalls, returned,
                             bMatched, wi, runs>>
        /\ pc = "asked" =>
              IF input.err
              THEN Decides("MERGE_A", "ConflictUseA")
              ELSE IF NormalizesTo(input.line, "A", "a")
              THEN Decides("MERGE_A", "ConflictUseA")
              ELSE IF NormalizesTo(input.line, "B", "b")
              THEN Decides("MERGE_B", "ConflictUseB")
              ELSE /\ pc' = "ask"
                   /\ UNCHANGED <<stats, resultRows, i, tableC, execCalls,
                                  returned, bMatched, wi, runs>> ]_vars

\* The prompt is up again, with nothing appended, after a line that is
\* neither "A" nor "B" though it holds both letters.
C9_Witness ==
    /\ pc = "ask"
    /\ resultRows = <<>>
    /\ stats.Conflict = 1
    /\ ~input.err
    /\ input.line = <<"a", " ", "b", "\n">>

----------------------------------------------------------------------------
\* C10: two calls of Run on one Merger, with A and B unchanged and a strategy
\* that does not ask, that both end well return the same counters and leave
\* the same sequence of rows in C; C holds the rows of the run that ended
\* last and no others.
C10_Idempotent ==
    /\ \A a, b \in 1..Len(returned) :
          (~returned[a].err /\ ~returned[b].err) =>
              /\ returned[a].report = returned[b].report
              /\ returned[a].tableC = returned[b].tableC
    /\ pc = "done" => tableC = resultRows /\ stats.TotalC = Len(tableC)

\* Two calls have ended well, with conflicts, auto-filled values and rows
\* from both tables in C.
C10_Witness ==
    /\ Len(returned) = 2
    /\ ~returned[1].err
    /\ ~returned[2].err
    /\ returned[2].report[1].Conflict > 0
    /\ returned[2].report[1].NullAutoFilled > 0
    /\ returned[2].report[1].OnlyInB > 0
    /\ Len(returned[2].tableC) = 3

----------------------------------------------------------------------------
\* A value that is NULL or the empty string.
Empty(v) == ~NonEmpty(v)

\* The differing fields of rowA and rowB that are filled from B (A empty, B
\* not), kept from A (B empty, A not), and left to the policy (the rest: both
\* non-empty, or NULL against the empty string).
FilledOf(differing, rowA, rowB) ==
    {f \in differing : Empty(rowA[f]) /\ NonEmpty(rowB[f])}
KeptOf(differing, rowA, rowB) ==
    {f \in differing : NonEmpty(rowA[f]) /\ Empty(rowB[f])}
PolicyOf(differing, rowA, rowB) ==
    differing \ (FilledOf(differing, rowA, rowB) \cup KeptOf(differing, rowA, rowB))

\* C12: the step that appends the record of a matched pair with fields left
\* to the policy applies one winner, A (source "MERGE_A", ConflictUseA grows
\* by one) or B (source "MERGE_B", ConflictUseB grows by one), the configured
\* side under PreferA and PreferB. When B wins exactly the policy fields and
\* the auto-filled fields hold B's value; when A wins only the auto-filled
\* ones do; auto-kept fields and every field that does not differ (key
\* fields, ignored fields, fields B does not have) hold A's value. In both
\* cases conflict is true and diff_fields lists all differing fields,
\* auto-resolved ones included, in the order of the comparison fields.
C12_OneWinner ==
    [][ LET n == Len(resultRows) + 1
        IN  (n <= Len(tableA) /\ Len(resultRows') = n /\ InB(KeyA(n))) =>
            LET rowA == tableA[n]
                rowB == LastB(KeyA(n))
                rec == resultRows'[n]
                differing == Differing(n)
                filled == FilledOf(differing, rowA, rowB)
                policy == PolicyOf(differing, rowA, rowB)
                winner == IF IsSource(rec, "MERGE_B") THEN "ConflictUseB"
                                                      ELSE "ConflictUseA"
                fromB == IF winner = "ConflictUseB" THEN filled \cup policy ELSE filled
            IN  policy # {} =>
                    /\ IsSource(rec, "MERGE_A") \/ IsSource(rec, "MERGE_B")
                    /\ config.Strategy = UseA => IsSource(rec, "MERGE_A")
                    /\ config.Strategy = UseB => IsSource(rec, "MERGE_B")
                    /\ \A f \in OutFields :
                          rec[f] = IF f \in fromB THEN rowB[f] ELSE rowA[f]
                    /\ IsConflict(rec)
                    /\ rec["_diff_fields"] = Str(DiffNamesOf(differing))
                    /\ stats'.ConflictUseA + stats'.ConflictUseB =
                           stats.ConflictUseA + stats.ConflictUseB + 1
                    /\ stats'[winner] = stats[winner] + 1 ]_vars

\* A run under PreferB ended well with two pairs: in one x was filled from B
\* and y went to B, in the other x was kept from A and y went to B; z, which
\* B does not have, is A's in both, and diff_fields is "x,y" in both.
C12_Witness ==
    /\ pc = "done"
    /\ config.Strategy = UseB
    /\ \E n1, n2 \in MatchedDone :
          /\ tableA[n1]["x"] = NULL
          /\ LastB(KeyA(n1))["x"] = Str("q")
          /\ tableC[n1]["x"] = Str("q")
          /\ tableA[n2]["x"] = Str("p")
          /\ Empty(LastB(KeyA(n2))["x"])
          /\ tableC[n2]["x"] = Str("p")
          /\ \A n \in {n1, n2} :
                /\ tableA[n]["y"] = Str("p")
                /\ tableC[n]["y"] = Str("q")
                /\ tableC[n]["z"] = tableA[n]["z"]
                /\ tableC[n]["_diff_fields"] = Str("x,y")
                /\ IsSource(tableC[n], "MERGE_B")

----------------------------------------------------------------------------
\* The differing fields of row n of A and its partner in which one side is
\* NULL and the other the empty string.
NullAgainstEmpty(n) ==
    LET rowA == tableA[n]
        rowB == LastB(KeyA(n))
    IN  {f \in Differing(n) : \/ rowA[f] = NULL /\ rowB[f] = Str("")
                              \/ rowA[f] = Str("") /\ rowB[f] = NULL}

\* C13: a differing field with NULL on one side and the empty string on the
\* other is left to the policy. The step that handles such a pair counts a
\* conflict and adds to NullAutoFilled only the fields with A empty and B
\* non-empty, never this one; under PreferA the record keeps A's value in the
\* field, has source "MERGE_A" and ConflictUseA grows by one; under PreferB
\* the record takes B's value as B held it (NULL or the empty string), has
\* source "MERGE_B" and ConflictUseB grows by one; under the interactive
\* strategy the step goes to the prompt.
C13_NullAgainstEmpty ==
    [][ (AtPair /\ NullAgainstEmpty(i) # {})
        => LET rowA == tableA[i]
               rowB == LastB(KeyA(i))
               filled == FilledOf(Differing(i), rowA, rowB)
           IN  /\ NullAgainstEmpty(i) \cap filled = {}
               /\ stats'.Conflict = stats.Conflict + 1
               /\ stats'.NullAutoFilled = stats.NullAutoFilled + Cardinality(filled)
               /\ config.Strategy = UseA =>
                     /\ Len(resultRows') = Len(resultRows) + 1
                     /\ \A f \in NullAgainstEmpty(i) : Appended[f] = rowA[f]
                     /\ IsSource(Appended, "MERGE_A")
                     /\ stats'.ConflictUseA = stats.ConflictUseA + 1
                     /\ stats'.ConflictUseB = stats.ConflictUseB
               /\ config.Strategy = UseB =>
                     /\ Len(resultRows') = Len(resultRows) + 1
                     /\ \A f \in NullAgainstEmpty(i) : Appended[f] = rowB[f]
                     /\ IsSource(Appended, "MERGE_B")
                     /\ stats'.ConflictUseB = stats.ConflictUseB + 1
                     /\ stats'.ConflictUseA = stats.ConflictUseA
               /\ config.Strategy = AskUser =>
                     /\ pc' = "ask"
                     /\ resultRows' = resultRows
                     /\ stats'.ConflictUseA = stats.ConflictUseA
                     /\ stats'.ConflictUseB = stats.ConflictUseB ]_vars

\* Under PreferB, with y ignored, a pair whose only difference was x, the
\* empty string in A and NULL in B, has been handled: the record holds NULL,
\* ConflictUseB is one and nothing was auto-filled.
C13_Witness ==
    /\ config.Strategy = UseB
    /\ config.IgnoreFieldsA = <<"y">>
    /\ stats.ConflictUseB = 1
    /\ stats.NullAutoFilled = 0
    /\ \E n \in MatchedDone :
          /\ NullAgainstEmpty(n) = {"x"}
          /\ Differing(n) = {"x"}
          /\ tableA[n]["x"] = Str("")
          /\ LastB(KeyA(n))["x"] = NULL
          /\ resultRows[n]["x"] = NULL
          /\ IsSource(resultRows[n], "MERGE_B")

----------------------------------------------------------------------------
\* The rows of A the matching pass has taken so far: those with a record in
\* the result, and the one the prompt is waiting for.
Handled ==
    IF pc \in {"ask", "asked"}
    THEN 1..(Len(resultRows) + 1)
    ELSE 1..Min(Len(tableA), Len(resultRows))

\* What row n of A is: without a partner, an exact match of its partner, a
\* conflict the auto rules resolve alone, or a conflict with a field left to
\* the policy.
RowKind(n) ==
    LET differing == Differing(n)
    IN  IF ~InB(KeyA(n)) THEN "only"
        ELSE IF differing = {} THEN "exact"
        ELSE IF PolicyOf(differing, tableA[n], LastB(KeyA(n))) = {} THEN "auto"
        ELSE "policy"

\* While Run is under way every row of A taken so far is counted in exactly
\* one of OnlyInA (no partner), ExactMatch (partner, no difference) and
\* Conflict (partner, some difference), and ConflictUseA + ConflictUseB counts
\* the conflicting rows decided so far that had a field left to the policy;
\* after a successful run the totals add up.
CountedByKind ==
    pc # "idle" =>
        LET kinds == {<<n, RowKind(n)>> : n \in Handled}
            onlyA == {n \in Handled : <<n, "only">> \in kinds}
            exact == {n \in Handled : <<n, "exact">> \in kinds}
            auto == {n \in Handled : <<n, "auto">> \in kinds}
            policy == {n \in Handled : <<n, "policy">> \in kinds}
            conflicting == auto \cup policy
            decided == {n \in policy : n <= Len(resultRows)}
        IN  /\ stats.OnlyInA = Cardinality(onlyA)
            /\ stats.ExactMatch = Cardinality(exact)
            /\ stats.Conflict = Cardinality(conflicting)
            /\ stats.OnlyInA + stats.ExactMatch + stats.Conflict = Cardinality(Handled)
            /\ stats.ConflictUseA + stats.ConflictUseB = Cardinality(decided)
            /\ stats.ConflictUseA + stats.ConflictUseB <= stats.Conflict
            /\ pc = "done" =>
                  /\ stats.TotalA = Len(tableA)
                  /\ stats.TotalA = stats.ExactMatch + stats.Conflict + stats.OnlyInA
                  /\ stats.TotalC = stats.TotalA + stats.OnlyInB
                  /\ stats.TotalC = Len(tableC)
                  /\ stats.OnlyInB <= stats.TotalB
                  /\ (stats.ConflictUseA + stats.ConflictUseB = stats.Conflict)
                         <=> auto = {}

\* The matching pass is about to take row i of A.
AtRow == pc = "match" /\ i <= Len(tableA)

\* The step that takes a row of A raises exactly one of ExactMatch, Conflict
\* and OnlyInA, by one; no other step changes any of the three.
OneCounterPerRow ==
    LET grown == {c \in {"ExactMatch", "Conflict", "OnlyInA"} : stats'[c] # stats[c]}
    IN  /\ \A c \in grown : stats'[c] = stats[c] + 1
        /\ Cardinality(grown) = IF AtRow THEN 1 ELSE 0

\* C14: during the matching pass each row of A taken raises exactly one of
\* ExactMatch, Conflict and OnlyInA, so that the three count the rows taken
\* so far by kind; after every successful run TotalA = ExactMatch + Conflict
\* + OnlyInA, TotalC = TotalA + OnlyInB, OnlyInB <= TotalB, and ConflictUseA +
\* ConflictUseB <= Conflict, with equality iff every conflicting row had a
\* field left to the policy.
C14_Counters == []CountedByKind /\ [][OneCounterPerRow]_vars

\* A run under PreferB ended well with two conflicting rows, one filled from
\* B without a decision and one decided by the policy.
C14_Witness ==
    /\ pc = "done"
    /\ config.Strategy = UseB
    /\ stats.TotalA = 2
    /\ stats.Conflict = 2
    /\ stats.NullAutoFilled = 1
    /\ stats.ConflictUseB = 1
    /\ stats.ConflictUseA = 0
    /\ stats.TotalC = 2

\* A run ended well with a row only in A and an exact match.
C14_WitnessKinds ==
    /\ pc = "done"
    /\ stats.OnlyInA = 1
    /\ stats.ExactMatch = 1
    /\ stats.TotalC = 2

----------------------------------------------------------------------------
\* Keys: one row in A and one in B whose key fields hold NULL, the empty
\* string, a plain text, the text of the NULL sentinel or the text of the
\* separator, under a key of one field and a key of two.

KeyVals == {NULL, Str(""), Str("a"), Str(NullSentinel), Str(KeySep)}

RowsKA ==
    {[k |-> r[1], x |-> r[2], y |-> Str("p"), z |-> Str("p")] :
        r \in KeyVals \X KeyVals}

RowsKB ==
    {[k |-> r[1], x |-> r[2], y |-> Str("q"), w |-> Str("p")] :
        r \in KeyVals \X KeyVals}

InitKey ==
    InitWith({[KeyFields |-> kf, IgnoreFieldsA |-> <<>>, IgnoreFieldsB |-> <<>>,
               Strategy |-> UseA, BatchSize |-> 0] : kf \in {<<"k">>, <<"k", "x">>}},
             {<<r>> : r \in RowsKA}, {<<r>> : r \in RowsKB})

NextKey ==
    \/ RunStart
    \/ MatchOnlyInA
    \/ MatchPair
    \/ BOnlyPass
    \/ InsertBatch
    \/ InsertBatchFail
    \/ Finish

SpecKey == InitKey /\ [][NextKey]_vars

\* The rows agree on every configured key field: both NULL, or both the same
\* string.
SameEntity(rowA, rowB) ==
    \A n \in 1..Len(config.KeyFields) :
        ValOf(rowA, config.KeyFields[n]) = ValOf(rowB, config.KeyFields[n])

\* C11 as stated: a row of A and a row of B have equal keys iff they agree on
\* every configured key field, whatever strings the fields hold (the text of
\* the separator and of the NULL sentinel included); so a NULL never gives
\* the key of a string, and different tuples never give one joined key.
C11_KeyIffSameEntity ==
    \A n \in 1..Len(tableA), m \in 1..Len(tableB) :
        KeyA(n) = KeyB(m) <=> SameEntity(tableA[n], tableB[m])

\* The half of C11 that holds: rows that agree on the key fields have equal
\* keys.
C11_SameEntityEqualKeys ==
    \A n \in 1..Len(tableA), m \in 1..Len(tableB) :
        SameEntity(tableA[n], tableB[m]) => KeyA(n) = KeyB(m)

\* A run ended well in which the row of A and the row of B differ on a key
\* field and still were handled as one entity: one record came out, none
\* only in A and none only in B.
C11_Witness ==
    /\ pc = "done"
    /\ Len(tableA) = 1
    /\ Len(tableB) = 1
    /\ ~SameEntity(tableA[1], tableB[1])
    /\ stats.OnlyInA = 0
    /\ stats.OnlyInB = 0
    /\ Len(tableC) = 1

====
